---- MODULE Spec2Model ----
(***************************************************************************)
(* Model of vidstab/VidStab.py: the VidStab object and the steps of        *)
(* VidStab.stabilize().                                                     *)
(*                                                                          *)
(* Numbers.  The floats of the program are modelled as exact fixed-point   *)
(* numbers whose unit is 1/WINDOW: a motion estimate of one pixel (or one  *)
(* angle step) is the integer WINDOW, so the mean of WINDOW trajectory     *)
(* entries is again an integer.  A float that can be NaN is the record     *)
(* [nan, v]; NaN is [nan |-> TRUE, v |-> 0].                                *)
(*                                                                          *)
(* A row is the triple <<dx, dy, da>>.  Python's None and a local name     *)
(* that is not bound are both the empty sequence (every array the program  *)
(* builds for a video of two or more frames has at least one row).  When   *)
(* stabilize() raises, its local arrays are unbound as well.  out is what  *)
(* the current call's VideoWriter has written, bar the progress bar the    *)
(* current call created, reads the number of vid_cap.read() calls it made. *)
(***************************************************************************)
EXTENDS Integers, Sequences, FiniteSets, TLC

VARIABLES pc, video, output_fourcc, show_progress, pos, reads,
          prev_to_cur_transform, trajectory, smoothed_trajectory,
          transforms, out, bar, i, error

vars == <<pc, video, output_fourcc, show_progress, pos, reads,
          prev_to_cur_transform, trajectory, smoothed_trajectory,
          transforms, out, bar, i, error>>

\* ------------------------------------------------------------------ bounds
\* short videos have 2 .. ShortFrames frames (fewer deltas than the window)
ShortFrames == 3
\* long videos have WINDOW + 1 .. WINDOW + ExtraFrames frames
ExtraFrames == 2
\* the estimator may find no transform at one pair: the first, or pair GapAt
GapAt == 2

\* --------------------------------------------------------------- constants
\* rolling(window=30)
WINDOW == 30

None == <<>>

\* ------------------------------------------------------------------- floats
NaN == [nan |-> TRUE, v |-> 0]

Num(x) == [nan |-> FALSE, v |-> x]

IsNaN(x) == x.nan

\* IEEE addition and subtraction: NaN is absorbing
FAdd(a, b) == IF a.nan \/ b.nan THEN NaN ELSE Num(a.v + b.v)

FSub(a, b) == IF a.nan \/ b.nan THEN NaN ELSE Num(a.v - b.v)

Cols == 1..3

RowAdd(a, b) == [c \in Cols |-> a[c] + b[c]]

ZeroRow == <<0, 0, 0>>

\* ------------------------------------------------------------ input videos
NoGap == -1

MotionKinds == {"pan", "shake"}

FrameCounts == (2..ShortFrames) \cup ((WINDOW + 1)..(WINDOW + ExtraFrames))

\* A video file: the frame count its container reports, the number of
\* frames that actually decode, and what the camera did between frames.
Videos == { v \in [frame_count : FrameCounts, readable : 1..(WINDOW + ExtraFrames),
                   motion : MotionKinds, gap : {NoGap, 0, GapAt}] :
              v.readable \in {v.frame_count - 1, v.frame_count} }

Fourccs == {"MJPG", "MJP"}

\* the camera motion between frame k and frame k+1 (k counts from 0), in
\* whole pixels / angle steps
Motion(v, k) ==
    CASE v.motion = "pan"   -> <<1, 0, 0>>
      [] v.motion = "shake" -> <<IF k % 2 = 0 THEN 2 ELSE -2, (k % 3) - 1, IF k % 2 = 0 THEN -1 ELSE 1>>

\* cv2.estimateRigidTransform on the matched keypoints of pair k: None, or
\* the matrix whose translation column is (tx, ty) and whose rotation
\* block has angle ang
estimateRigidTransform(v, k) ==
    IF k = v.gap THEN None
    ELSE <<[tx  |-> WINDOW * Motion(v, k)[1],
            ty  |-> WINDOW * Motion(v, k)[2],
            ang |-> WINDOW * Motion(v, k)[3]]>>

\* the else branch of line 124 taken as one pixel instead of zero
DeltaOfNoZero(transform) ==
    IF transform # None
    THEN <<transform[1].tx, transform[1].ty, transform[1].ang>>
    ELSE <<WINDOW, WINDOW, WINDOW>>

\* lines 117-125: the delta taken from the estimate
DeltaOf(transform) ==
    IF transform # None
    THEN <<transform[1].tx, transform[1].ty, transform[1].ang>>
    ELSE ZeroRow

\* ------------------------------------------------------------- trajectory
RECURSIVE CumSumAcc(_, _, _)
CumSumAcc(s, acc, res) ==
    IF s = <<>> THEN res
    ELSE CumSumAcc(Tail(s), RowAdd(acc, Head(s)), Append(res, RowAdd(acc, Head(s))))

\* the running sum restarts at every row
CumSumNoCarry(s) == [k \in 1..Len(s) |-> RowAdd(ZeroRow, s[k])]

\* np.cumsum(prev_to_cur_transform, axis=0)
CumSum(s) == CumSumAcc(s, ZeroRow, <<>>)

RECURSIVE SumCol(_, _, _, _)
SumCol(t, c, lo, hi) == IF lo > hi THEN 0 ELSE t[lo][c] + SumCol(t, c, lo + 1, hi)

\* rolling(window=w, min_periods=1): partial means over the rows available
RollingPartial(t, w) ==
    [k \in 1..Len(t) |->
        IF k < w THEN [c \in Cols |-> Num(SumCol(t, c, 1, k) \div k)]
        ELSE [c \in Cols |-> Num(SumCol(t, c, k - w + 1, k) \div w)]]

\* trajectory.rolling(window=w, center=False).mean(): row k (from 1) is NaN
\* until w rows are available, then the mean of rows k-w+1 .. k
Rolling(t, w) ==
    [k \in 1..Len(t) |->
        IF k < w THEN [c \in Cols |-> NaN]
        ELSE [c \in Cols |-> Num(SumCol(t, c, k - w + 1, k) \div w)]]

RECURSIVE BFillFrom(_, _, _)
BFillFrom(s, k, res) ==
    IF k = 0 THEN res
    ELSE BFillFrom(s, k - 1,
           <<[c \in Cols |-> IF IsNaN(s[k][c]) /\ res # <<>> THEN res[1][c] ELSE s[k][c]]>> \o res)

\* smoothed_trajectory.fillna(method='bfill'): each NaN takes the next
\* defined value below it in its column, and stays NaN when there is none
BFill(s) == BFillFrom(s, Len(s), <<>>)

Smoothed(t) == BFill(Rolling(t, WINDOW))

\* the residual taken with the wrong sign
CorrectionsFlipped(d, s, t) ==
    [k \in 1..Len(d) |->
        [c \in Cols |-> FAdd(Num(d[k][c]), FSub(Num(t[k][c]), s[k][c]))]]

\* line 147: prev_to_cur_transform + (smoothed_trajectory - trajectory)
Corrections(d, s, t) ==
    [k \in 1..Len(d) |->
        [c \in Cols |-> FAdd(Num(d[k][c]), FSub(s[k][c], Num(t[k][c])))]]

\* lines 165-172: the matrix built from transforms[i] and the warped frame
Warp(frame, row) == [src |-> frame, ang |-> row[3], tx |-> row[1], ty |-> row[2]]

NoBar == [max |-> 0, index |-> 0]

\* a tick that counts the frame twice
TickTwice(b) == IF show_progress THEN [b EXCEPT !.index = @ + 2] ELSE b

\* bar.next()
Tick(b) == IF show_progress THEN [b EXCEPT !.index = @ + 1] ELSE b

\* --------------------------------------------------------------- the object
\* VidStab.__init__
Init ==
    /\ pc = "idle"
    /\ video = CHOOSE v \in Videos : TRUE
    /\ output_fourcc = "MJPG"
    /\ show_progress = TRUE
    /\ pos = 0
    /\ reads = 0
    /\ prev_to_cur_transform = None
    /\ trajectory = None
    /\ smoothed_trajectory = None
    /\ transforms = None
    /\ out = None
    /\ bar = NoBar
    /\ i = 0
    /\ error = "none"

\* stabilize() is entered: lines 78-93
Call(v, fourcc, show) ==
    /\ pc \in {"idle", "returned", "raised"}
    /\ video' = v
    /\ output_fourcc' = fourcc
    /\ show_progress' = show
    /\ pos' = 1
    /\ reads' = 1
    /\ prev_to_cur_transform' = <<>>
    /\ trajectory' = None
    /\ smoothed_trajectory' = None
    /\ out' = None
    /\ bar' = IF show THEN [max |-> 2 * (v.frame_count - 1), index |-> 0] ELSE NoBar
    /\ i' = 0
    /\ error' = "none"
    /\ pc' = "estimate"
    /\ UNCHANGED transforms

\* one iteration of the loop of lines 95-132
EstimateStep ==
    /\ pc = "estimate"
    /\ Len(prev_to_cur_transform) < video.frame_count - 1
    /\ pos < video.readable
    /\ pos' = pos + 1
    /\ reads' = reads + 1
    /\ prev_to_cur_transform' =
          Append(prev_to_cur_transform,
                 DeltaOf(estimateRigidTransform(video, Len(prev_to_cur_transform))))
    /\ bar' = Tick(bar)
    /\ UNCHANGED <<pc, video, output_fourcc, show_progress, trajectory,
                   smoothed_trajectory, transforms, out, i, error>>

\* lines 97-99 when the frame does not decode: read() gives None and
\* cvtColor raises
EstimateReadFail ==
    /\ pc = "estimate"
    /\ Len(prev_to_cur_transform) < video.frame_count - 1
    /\ pos >= video.readable
    /\ reads' = reads + 1
    /\ pc' = "raised"
    /\ error' = "decode"
    /\ prev_to_cur_transform' = None
    /\ UNCHANGED <<video, output_fourcc, show_progress, pos, trajectory,
                   smoothed_trajectory, transforms, out, bar, i>>

\* lines 134-147
Smooth ==
    /\ pc = "estimate"
    /\ Len(prev_to_cur_transform) = video.frame_count - 1
    /\ trajectory' = CumSum(prev_to_cur_transform)
    /\ smoothed_trajectory' = Smoothed(trajectory')
    /\ transforms' = Corrections(prev_to_cur_transform, smoothed_trajectory', trajectory')
    /\ pc' = "open_output"
    /\ UNCHANGED <<video, output_fourcc, show_progress, pos, reads,
                   prev_to_cur_transform, out, bar, i, error>>

\* the capture of Phase 1 is kept instead of being opened again
OpenOutputNoReopen ==
    /\ pc = "open_output"
    /\ Len(output_fourcc) = 4
    /\ out' = <<>>
    /\ i' = 0
    /\ pc' = "render"
    /\ UNCHANGED <<video, output_fourcc, show_progress, pos, reads, prev_to_cur_transform,
                   trajectory, smoothed_trajectory, transforms, bar, error>>

\* lines 153-158 with a four-character code
OpenOutput ==
    /\ pc = "open_output"
    /\ Len(output_fourcc) = 4
    /\ pos' = 0
    /\ out' = <<>>
    /\ i' = 0
    /\ pc' = "render"
    /\ UNCHANGED <<video, output_fourcc, show_progress, reads, prev_to_cur_transform,
                   trajectory, smoothed_trajectory, transforms, bar, error>>

\* line 158 when the code does not have four characters:
\* cv2.VideoWriter_fourcc(*output_fourcc) raises
OpenOutputFail ==
    /\ pc = "open_output"
    /\ Len(output_fourcc) # 4
    /\ pos' = 0
    /\ pc' = "raised"
    /\ error' = "codec"
    /\ prev_to_cur_transform' = None
    /\ trajectory' = None
    /\ smoothed_trajectory' = None
    /\ UNCHANGED <<video, output_fourcc, show_progress, reads, transforms, out, bar, i>>

\* the applied row is written back as the running total of the rows
RenderStepAccumulate ==
    /\ pc = "render"
    /\ i < video.frame_count - 1
    /\ pos' = pos + 1
    /\ reads' = reads + 1
    /\ out' = Append(out, Warp(pos, transforms[i + 1]))
    /\ bar' = Tick(bar)
    /\ i' = i + 1
    /\ transforms' = IF i + 2 <= Len(transforms)
                     THEN [transforms EXCEPT ![i + 2] =
                             [c \in Cols |-> FAdd(transforms[i + 1][c], transforms[i + 2][c])]]
                     ELSE transforms
    /\ UNCHANGED <<pc, video, output_fourcc, show_progress, prev_to_cur_transform,
                   trajectory, smoothed_trajectory, error>>

\* one iteration of the loop of lines 161-177
RenderStep ==
    /\ pc = "render"
    /\ i < video.frame_count - 1
    /\ pos' = pos + 1
    /\ reads' = reads + 1
    /\ out' = Append(out, Warp(pos, transforms[i + 1]))
    /\ bar' = Tick(bar)
    /\ i' = i + 1
    /\ UNCHANGED <<pc, video, output_fourcc, show_progress, prev_to_cur_transform,
                   trajectory, smoothed_trajectory, transforms, error>>

\* the session clears self.transforms when it ends
ReturnClearing ==
    /\ pc = "render"
    /\ i = video.frame_count - 1
    /\ pc' = "returned"
    /\ prev_to_cur_transform' = None
    /\ trajectory' = None
    /\ smoothed_trajectory' = None
    /\ transforms' = None
    /\ UNCHANGED <<video, output_fourcc, show_progress, pos, reads,
                   out, bar, i, error>>

\* stabilize() returns after the loop of line 161: its local arrays go
\* away, self.transforms, the written file and the bar's count stay
Return ==
    /\ pc = "render"
    /\ i = video.frame_count - 1
    /\ pc' = "returned"
    /\ prev_to_cur_transform' = None
    /\ trajectory' = None
    /\ smoothed_trajectory' = None
    /\ UNCHANGED <<video, output_fourcc, show_progress, pos, reads,
                   transforms, out, bar, i, error>>

Next ==
    \/ \E v \in Videos, f \in Fourccs, s \in BOOLEAN : Call(v, f, s)
    \/ EstimateStep
    \/ EstimateReadFail
    \/ Smooth
    \/ OpenOutput
    \/ OpenOutputFail
    \/ RenderStep
    \/ Return

Spec == Init /\ [][Next]_vars

\* the interpreter keeps running the loop of line 161 and the return after it
FairSpec == Spec /\ WF_vars(RenderStep) /\ WF_vars(Return)

\* ================================================================= claims
\* the arrays of lines 135-147 are bound: smoothing has run in this call
\* and the call has neither returned nor raised
Smoothing == smoothed_trajectory # None

Rows(a) == 1..Len(a)

RECURSIVE DirectSum(_, _, _)
DirectSum(d, c, k) == IF k = 0 THEN 0 ELSE DirectSum(d, c, k - 1) + d[k][c]

RECURSIVE FCumCol(_, _, _)
FCumCol(a, c, k) == IF k = 0 THEN Num(0) ELSE FAdd(FCumCol(a, c, k - 1), a[k][c])

PrevTrajectory(k, c) == IF k = 1 THEN 0 ELSE trajectory[k - 1][c]

\* C1 as stated: the running sum of self.transforms equals the smoothed
\* trajectory at every index (two undefined values count as equal)
C1_CumsumIsSmoothed ==
    Smoothing =>
        \A k \in Rows(transforms), c \in Cols :
            FCumCol(transforms, c, k) = smoothed_trajectory[k][c]

\* C1 amended: at every index i the raw trajectory position before the
\* pair, moved by the correction transforms[i], is the smoothed position
\* smoothed[i]: trajectory[i-1] + transforms[i] = smoothed[i], with
\* trajectory[-1] = 0; the correction is undefined exactly where the
\* smoothed value is undefined
C1_CorrectionReachesSmoothed ==
    Smoothing =>
        /\ Len(transforms) = Len(smoothed_trajectory)
        /\ \A k \in Rows(transforms), c \in Cols :
              /\ IsNaN(transforms[k][c]) <=> IsNaN(smoothed_trajectory[k][c])
              /\ FAdd(Num(PrevTrajectory(k, c)), transforms[k][c]) = smoothed_trajectory[k][c]

C1_Witness ==
    /\ Smoothing
    /\ Len(transforms) > WINDOW
    /\ \E k \in Rows(transforms) :
          /\ ~IsNaN(transforms[k][1])
          /\ transforms[k][1] # Num(prev_to_cur_transform[k][1])
          /\ FCumCol(transforms, 1, k) # smoothed_trajectory[k][1]

\* C2: when the trajectory has at least window rows, every row before row
\* window - 1 of the smoothed trajectory equals row window - 1, and that
\* row is the mean of the first window rows of the trajectory
C2_BackFill ==
    (Smoothing /\ Len(trajectory) >= WINDOW) =>
        \A c \in Cols :
            /\ ~IsNaN(smoothed_trajectory[WINDOW][c])
            /\ smoothed_trajectory[WINDOW][c].v * WINDOW = DirectSum(trajectory, c, WINDOW)
            /\ \A k \in 1..(WINDOW - 1) :
                  smoothed_trajectory[k][c] = smoothed_trajectory[WINDOW][c]

C2_Witness ==
    /\ Smoothing
    /\ Len(trajectory) > WINDOW
    /\ smoothed_trajectory[WINDOW + 1] # smoothed_trajectory[WINDOW]
    /\ smoothed_trajectory[1][1] # Num(trajectory[1][1])

\* C3 as stated: with fewer deltas than the window every entry of
\* self.transforms is a defined number
C3_ShortVideoDefined ==
    (Smoothing /\ Len(prev_to_cur_transform) < WINDOW) =>
        \A k \in Rows(transforms), c \in Cols : ~IsNaN(transforms[k][c])

\* C4: the trajectory is as long as the delta sequence and each row is the
\* previous row plus the delta of that index, i.e. the sum of the deltas up
\* to and including that index
C4_TrajectoryIsRunningSum ==
    Smoothing =>
        /\ Len(trajectory) = Len(prev_to_cur_transform)
        /\ \A k \in Rows(trajectory), c \in Cols :
              /\ trajectory[k][c] = PrevTrajectory(k, c) + prev_to_cur_transform[k][c]
              /\ trajectory[k][c] = DirectSum(prev_to_cur_transform, c, k)

C4_Witness ==
    /\ Smoothing
    /\ Len(trajectory) >= 3
    /\ trajectory[3] # prev_to_cur_transform[3]
    /\ trajectory[3] # trajectory[2]

\* C5: an output frame is written only when the delta of every frame pair
\* has been collected and self.transforms holds the corrections computed
\* from them; from the first written frame on, no delta is added and
\* self.transforms is not modified for the rest of the run
C5_TwoPhase ==
    [][ /\ (Len(out') > Len(out)) =>
              /\ Len(prev_to_cur_transform) = video.frame_count - 1
              /\ Smoothing
              /\ transforms = Corrections(prev_to_cur_transform, smoothed_trajectory, trajectory)
        /\ (Len(out) > 0) =>
              /\ transforms' = transforms
              /\ Len(prev_to_cur_transform') <= Len(prev_to_cur_transform)
        /\ (pc = "render") => transforms' = transforms ]_vars

C5_Witness ==
    /\ pc = "render"
    /\ Len(out) >= 2
    /\ Len(out) < video.frame_count - 1

\* the estimate of pair k (from 0) as the rows of the delta sequence hold it
ExpectedDelta(k) ==
    IF k = video.gap THEN <<0, 0, 0>>
    ELSE [c \in Cols |-> WINDOW * Motion(video, k)[c]]

\* C6: the delta recorded for a pair whose estimate is "no transform" is
\* (0, 0, 0), the delta of every other pair is its estimate, a missing
\* estimate does not end the run, and when Phase 1 is over there is one
\* delta per frame pair
C6_EstimationGap ==
    /\ \A k \in Rows(prev_to_cur_transform) : prev_to_cur_transform[k] = ExpectedDelta(k - 1)
    /\ (pc \in {"open_output", "render"}) => Len(prev_to_cur_transform) = video.frame_count - 1
    /\ (error = "decode") => pos >= video.readable

C6_Witness ==
    /\ pc = "open_output"
    /\ video.gap = GapAt
    /\ Len(prev_to_cur_transform) >= GapAt + 2
    /\ prev_to_cur_transform[GapAt + 1] = <<0, 0, 0>>
    /\ prev_to_cur_transform[GapAt] # <<0, 0, 0>>
    /\ prev_to_cur_transform[GapAt + 2] # <<0, 0, 0>>

\* C7 as stated: a run that fails on its codec identifier has read no frame
C7_FailFast == (error = "codec") => reads = 0

\* C8 as stated: a completed run with progress display has ticked
\* 2 x frame_count times, never more than the bar's maximum
C8_TwoTicksPerFrame ==
    (show_progress /\ pc # "idle") =>
        /\ bar.index <= bar.max
        /\ (pc = "returned") => bar.index = 2 * video.frame_count

\* C8 amended: the bar is created with maximum 2 x (frame_count - 1); it
\* gets one tick per frame pair in Phase 1 and one per written frame in
\* Phase 2, so a completed run has ticked exactly 2 x (frame_count - 1)
\* times, and the tick count never exceeds the maximum
C8_TicksPerPair ==
    (show_progress /\ pc # "idle") =>
        /\ bar.max = 2 * (video.frame_count - 1)
        /\ bar.index <= bar.max
        /\ (pc = "estimate") => bar.index = Len(prev_to_cur_transform)
        /\ (pc \in {"render", "returned"}) => bar.index = (video.frame_count - 1) + Len(out)
        /\ (pc = "returned") => bar.index = 2 * (video.frame_count - 1)

C8_Witness ==
    /\ show_progress
    /\ pc = "returned"
    /\ bar.index = 2 * (video.frame_count - 1)
    /\ bar.index >= 4

\* C9 as stated: after stabilize() returns the object holds none of the
\* delta, trajectory and correction sequences
C9_NothingKept ==
    (pc = "returned") =>
        /\ prev_to_cur_transform = None
        /\ trajectory = None
        /\ smoothed_trajectory = None
        /\ transforms = None

\* C9 amended: the delta and trajectory sequences are gone when stabilize()
\* returns, but the correction sequence stays in self.transforms: after a
\* return it holds one row per frame pair of that video, and it is replaced
\* only when a later call finishes its own Phase 1
C9_TransformsKept ==
    [][ /\ (pc' = "returned") =>
              /\ prev_to_cur_transform' = None
              /\ trajectory' = None
              /\ smoothed_trajectory' = None
              /\ transforms' # None
              /\ Len(transforms') = video'.frame_count - 1
        /\ (transforms' # transforms) => (pc = "estimate" /\ pc' = "open_output") ]_vars

C9_Witness ==
    /\ pc = "estimate"
    /\ Len(prev_to_cur_transform) >= 1
    /\ transforms # None
    /\ Len(transforms) # video.frame_count - 1

\* Phase 2 starts again at frame 0 and writes frame k transformed by
\* row k of self.transforms, one frame per step; every step of Phase 2
\* brings it one frame closer to the end, and a run that returns has
\* written frames 0 .. N-2, each once and in order, and not frame N-1
RenderInv ==
    /\ (pc = "render") =>
          /\ i <= video.frame_count - 1
          /\ pos = i
          /\ Len(out) = i
          /\ ENABLED (RenderStep \/ Return)
    /\ (pc = "returned") => Len(out) = video.frame_count - 1
    /\ (pc \in {"render", "returned"}) =>
          \A k \in Rows(out) :
              /\ out[k].src = k - 1
              /\ out[k].src # video.frame_count - 1
              /\ out[k].tx = transforms[k][1]
              /\ out[k].ty = transforms[k][2]
              /\ out[k].ang = transforms[k][3]

\* C10: the statement above holds in every state, and a run that has
\* entered Phase 2 returns
C10_RenderCompletes == []RenderInv /\ ((pc = "render") ~> (pc = "returned"))

C10_Witness ==
    /\ pc = "returned"
    /\ video.readable = video.frame_count
    /\ Len(out) > WINDOW
    /\ ~IsNaN(out[2].tx)
    /\ out[1] # out[2]
====
